---- MODULE Spec2Model ----
(***************************************************************************)
(* Model of server/server.go: the bootstrap of the micro network server.   *)
(* run() initialises the plugins, resolves the four package-level string   *)
(* settings from the cli context, builds the Service, the Router and the   *)
(* srv, and drives Router.Start -> Service.Run -> Router.Stop.             *)
(***************************************************************************)
EXTENDS Integers, Sequences, FiniteSets, TLC

\* ---------------------------------------------------------------- bounds
MaxPlugins == 2
MaxContrib == 2

\* ------------------------------------------------------- program constants
DefaultName == "go.micro.server"
DefaultAddress == ":8087"
DefaultRouter == ":9093"
DefaultNetwork == "local"

\* ------------------------------------------------------------ input sets
\* the string lookups run() performs on the cli context
Keys == {"server_name", "address", "router_address", "network_address",
         "router", "network"}
\* values a string lookup can return; "" is "flag not set / not declared"
StrVals == {"", "127.0.0.1:9000", ":7000"}
IntKeys == {"register_ttl", "register_interval"}
\* values an integer lookup can return; 0 is "flag not set"
IntVals == {0, 2}
PluginIds == 1..MaxPlugins
\* error values: Nil is Go's nil error, Err(m) an error whose Error() is the
\* concatenation of the pieces of m
Nil == [isNil |-> TRUE, msg |-> <<>>]
Err(m) == [isNil |-> FALSE, msg |-> m]
\* errors the collaborators can return
RouterErrs == {Err(<<"router: address in use">>)}
ServiceErrs == {Err(<<"service: registry unreachable">>)}

\* flags and sub-commands a plugin can contribute; "address" collides with a
\* base flag, and two plugins can contribute the same entry
FlagPool == {[name |-> "address", envVars |-> <<"PLUGIN_ADDRESS">>],
             [name |-> "debug", envVars |-> <<"PLUGIN_DEBUG">>]}
CmdPool == {[name |-> "stats"], [name |-> "health"]}
RECURSIVE SeqsOver(_, _)
SeqsOver(pool, n) ==
    IF n = 0 THEN {<<>>}
    ELSE LET prev == SeqsOver(pool, n - 1)
         IN  prev \cup {Append(q, e) : q \in {x \in prev : Len(x) = n - 1}, e \in pool}
\* what p.Flags() and p.Commands() can return
FlagContribs == SeqsOver(FlagPool, MaxContrib)
CmdContribs == SeqsOver(CmdPool, MaxContrib)

\* registries: ordered sequences of distinct plugins
RECURSIVE SeqsUpTo(_)
SeqsUpTo(n) ==
    IF n = 0 THEN {<<>>}
    ELSE LET prev == SeqsUpTo(n - 1)
         IN  prev \cup {Append(s, p) : s \in {q \in prev : Len(q) = n - 1}, p \in PluginIds}
IsInjective(s) == \A a, b \in 1..Len(s) : s[a] = s[b] => a = b
Registries == {s \in SeqsUpTo(MaxPlugins) : IsInjective(s)}

VARIABLES
    pc,        \* position of the control thread inside run()
    ctx,       \* cli context: string lookups
    ctxInt,    \* cli context: integer lookups
    plugins,   \* the slice returned by Plugins()
    idx,       \* index of the range loop over the plugins
    Name, Address, Router, Network,   \* package-level settings
    service,   \* the micro.Service built by micro.NewService
    r,         \* the router built by router.NewRouter
    s,         \* the *srv built by newServer
    calls,     \* ledger of calls made to collaborators, in invocation order
    rets,      \* ledger of results returned by Start / Run / Stop
    logs,      \* messages written through the logger
    exitCode,  \* status passed to os.Exit (meaningful when pc = "exited")
    command,   \* the *cli.Command assembled by Commands()
    cidx,      \* index of the range loop of Commands() over the plugins
    pflags,    \* p.Flags() of each plugin
    pcmds      \* p.Commands() of each plugin

vars == <<pc, ctx, ctxInt, plugins, idx, Name, Address, Router, Network,
          service, r, s, calls, rets, logs, exitCode,
          command, cidx, pflags, pcmds>>

\* the variables of the command assembly
cmdVars == <<command, cidx, pflags, pcmds>>
\* the variables of run()
runVars == <<ctx, ctxInt, idx, Name, Address, Router, Network,
             service, r, s, calls, rets, logs, exitCode>>

None == [kind |-> "none"]

\* ------------------------------------------------------------- helpers
\* ctx.String(key): the value of the flag, "" when it has none
CtxString(key) == IF key \in DOMAIN ctx THEN ctx[key] ELSE ""
\* ctx.Int(key): the value of the flag, 0 when it has none
CtxInt(key) == IF key \in DOMAIN ctxInt THEN ctxInt[key] ELSE 0
\* time.Second: a time.Duration counts nanoseconds
Second == 1000000000
\* time.Duration(n) * time.Second
Seconds(n) == n * Second
\* formatting "<prefix>%v" (or %s) with an error: the prefix followed by err.Error()
Sprintf(prefix, err) == <<prefix>> \o err.msg
\* fmt.Errorf("<prefix>%v", err)
Errorf(prefix, err) == Err(Sprintf(prefix, err))
Info(msg) == [level |-> "info", msg |-> msg]
Error(msg) == [level |-> "error", msg |-> msg]
Call(op, arg) == [op |-> op, arg |-> arg]
Ret(op, err) == [op |-> op, err |-> err]

\* command := &cli.Command{Name: "server", Flags: the three base flags, ...}
BaseCommand ==
    [name |-> "server",
     flags |-> << [name |-> "address", envVars |-> <<"MICRO_SERVER_ADDRESS">>],
                  [name |-> "router_address", envVars |-> <<"MICRO_ROUTER_ADDRESS">>],
                  [name |-> "network_address", envVars |-> <<"MICRO_NETWORK_ADDRESS">>] >>,
     subcommands |-> <<>>]

\* run() is entered from the command's Action; the command was assembled
\* from plugins that contribute nothing
Init ==
    /\ pc = "plugins"
    /\ pflags = [p \in PluginIds |-> <<>>]
    /\ pcmds = [p \in PluginIds |-> <<>>]
    /\ command = BaseCommand
    /\ ctx \in [Keys -> StrVals]
    /\ ctxInt \in [IntKeys -> IntVals]
    /\ plugins \in Registries
    /\ cidx = Len(plugins) + 1
    /\ idx = 1
    /\ Name = DefaultName
    /\ Address = DefaultAddress
    /\ Router = DefaultRouter
    /\ Network = DefaultNetwork
    /\ service = None
    /\ r = None
    /\ s = None
    /\ calls = <<>>
    /\ rets = <<>>
    /\ logs = <<>>
    /\ exitCode = 0

\* mutant of InitPlugin: the registry is walked from its last entry
InitPlugin_Reversed ==
    /\ pc = "plugins"
    /\ idx <= Len(plugins)
    /\ calls' = Append(calls, Call("Plugin.Init", plugins[Len(plugins) - idx + 1]))
    /\ idx' = idx + 1
    /\ UNCHANGED <<pc, ctx, ctxInt, plugins, Name, Address, Router, Network,
                   service, r, s, rets, logs, exitCode>>
    /\ UNCHANGED cmdVars

\* for _, p := range Plugins() { p.Init(ctx) }  -- one iteration
InitPlugin ==
    /\ pc = "plugins"
    /\ idx <= Len(plugins)
    /\ calls' = Append(calls, Call("Plugin.Init", plugins[idx]))
    /\ idx' = idx + 1
    /\ UNCHANGED <<pc, ctx, ctxInt, plugins, Name, Address, Router, Network,
                   service, r, s, rets, logs, exitCode>>
    /\ UNCHANGED cmdVars

\* mutant of PluginsDone: the loop is left one entry early
PluginsDone_Early ==
    /\ pc = "plugins"
    /\ idx >= Len(plugins)
    /\ pc' = "resolve_name"
    /\ UNCHANGED <<ctx, ctxInt, plugins, idx, Name, Address, Router, Network,
                   service, r, s, calls, rets, logs, exitCode>>
    /\ UNCHANGED cmdVars

\* mutant of PluginsDone: the exit test of the loop is off by one
PluginsDone_OffByOne ==
    /\ pc = "plugins"
    /\ idx > Len(plugins) + 1
    /\ pc' = "resolve_name"
    /\ UNCHANGED <<ctx, ctxInt, plugins, idx, Name, Address, Router, Network,
                   service, r, s, calls, rets, logs, exitCode>>
    /\ UNCHANGED cmdVars

\* the range loop is exhausted
PluginsDone ==
    /\ pc = "plugins"
    /\ idx > Len(plugins)
    /\ pc' = "resolve_name"
    /\ UNCHANGED <<ctx, ctxInt, plugins, idx, Name, Address, Router, Network,
                   service, r, s, calls, rets, logs, exitCode>>
    /\ UNCHANGED cmdVars

\* if len(ctx.String("server_name")) > 0 { Name = ctx.String("server_name") }
ResolveName ==
    /\ pc = "resolve_name"
    /\ Name' = IF CtxString("server_name") # "" THEN CtxString("server_name") ELSE Name
    /\ pc' = "resolve_address"
    /\ UNCHANGED <<ctx, ctxInt, plugins, idx, Address, Router, Network,
                   service, r, s, calls, rets, logs, exitCode>>
    /\ UNCHANGED cmdVars

\* mutant of ResolveAddress: the override is stored into Name
ResolveAddress_WrongTarget ==
    /\ pc = "resolve_address"
    /\ Name' = IF CtxString("address") # "" THEN CtxString("address") ELSE Name
    /\ pc' = "resolve_router"
    /\ UNCHANGED <<ctx, ctxInt, plugins, idx, Address, Router, Network,
                   service, r, s, calls, rets, logs, exitCode>>
    /\ UNCHANGED cmdVars

\* if len(ctx.String("address")) > 0 { Address = ctx.String("address") }
ResolveAddress ==
    /\ pc = "resolve_address"
    /\ Address' = IF CtxString("address") # "" THEN CtxString("address") ELSE Address
    /\ pc' = "resolve_router"
    /\ UNCHANGED <<ctx, ctxInt, plugins, idx, Name, Router, Network,
                   service, r, s, calls, rets, logs, exitCode>>
    /\ UNCHANGED cmdVars

\* mutant of ResolveRouter: the value is read under the key that was tested
ResolveRouter_SameKey ==
    /\ pc = "resolve_router"
    /\ Router' = IF CtxString("router_address") # "" THEN CtxString("router_address") ELSE Router
    /\ pc' = "resolve_network"
    /\ UNCHANGED <<ctx, ctxInt, plugins, idx, Name, Address, Network,
                   service, r, s, calls, rets, logs, exitCode>>
    /\ UNCHANGED cmdVars

\* if len(ctx.String("router_address")) > 0 { Router = ctx.String("router") }
ResolveRouter ==
    /\ pc = "resolve_router"
    /\ Router' = IF CtxString("router_address") # "" THEN CtxString("router") ELSE Router
    /\ pc' = "resolve_network"
    /\ UNCHANGED <<ctx, ctxInt, plugins, idx, Name, Address, Network,
                   service, r, s, calls, rets, logs, exitCode>>
    /\ UNCHANGED cmdVars

\* if len(ctx.String("network_address")) > 0 { Network = ctx.String("network") }
ResolveNetwork ==
    /\ pc = "resolve_network"
    /\ Network' = IF CtxString("network_address") # "" THEN CtxString("network") ELSE Network
    /\ pc' = "new_service"
    /\ UNCHANGED <<ctx, ctxInt, plugins, idx, Name, Address, Router,
                   service, r, s, calls, rets, logs, exitCode>>
    /\ UNCHANGED cmdVars

\* mutant of NewService: the two integer lookups are read under each other's key
NewService_SwappedKeys ==
    /\ pc = "new_service"
    /\ service' = [kind |-> "service",
                   name |-> Name,
                   address |-> Address,
                   registerTTL |-> Seconds(CtxInt("register_interval")),
                   registerInterval |-> Seconds(CtxInt("register_ttl")),
                   id |-> "service-id",
                   registry |-> "service-registry"]
    /\ calls' = Append(calls, Call("micro.NewService", Name))
    /\ pc' = "new_router"
    /\ UNCHANGED <<ctx, ctxInt, plugins, idx, Name, Address, Router, Network,
                   r, s, rets, logs, exitCode>>
    /\ UNCHANGED cmdVars

\* service := micro.NewService(Name, Address, RegisterTTL, RegisterInterval)
NewService ==
    /\ pc = "new_service"
    /\ service' = [kind |-> "service",
                   name |-> Name,
                   address |-> Address,
                   registerTTL |-> Seconds(CtxInt("register_ttl")),
                   registerInterval |-> Seconds(CtxInt("register_interval")),
                   id |-> "service-id",
                   registry |-> "service-registry"]
    /\ calls' = Append(calls, Call("micro.NewService", Name))
    /\ pc' = "new_router"
    /\ UNCHANGED <<ctx, ctxInt, plugins, idx, Name, Address, Router, Network,
                   r, s, rets, logs, exitCode>>
    /\ UNCHANGED cmdVars

\* r := router.NewRouter(Id, Address(Router), Network(Network), Registry)
NewRouter ==
    /\ pc = "new_router"
    /\ r' = [kind |-> "router",
             id |-> service.id,
             address |-> Router,
             network |-> Network,
             registry |-> service.registry]
    /\ calls' = Append(calls, Call("router.NewRouter", Router))
    /\ pc' = "new_server"
    /\ UNCHANGED <<ctx, ctxInt, plugins, idx, Name, Address, Router, Network,
                   service, s, rets, logs, exitCode>>
    /\ UNCHANGED cmdVars

\* mutant of newServer: the network id is reset to the built-in default
newServer_ResetsNetwork ==
    /\ pc = "new_server"
    /\ Network' = DefaultNetwork
    /\ s' = [kind |-> "srv",
             router |-> r,
             network |-> [transport |-> [addrs |-> Network']]]
    /\ calls' = Append(calls, Call("server.NewServer", Network'))
    /\ pc' = "start"
    /\ UNCHANGED <<ctx, ctxInt, plugins, idx, Name, Address, Router,
                   service, r, rets, logs, exitCode>>
    /\ UNCHANGED cmdVars

\* s := newServer(service, r): grpc transport on Network, server on it
newServer ==
    /\ pc = "new_server"
    /\ s' = [kind |-> "srv",
             router |-> r,
             network |-> [transport |-> [addrs |-> Network]]]
    /\ calls' = Append(calls, Call("server.NewServer", Network))
    /\ pc' = "start"
    /\ UNCHANGED <<ctx, ctxInt, plugins, idx, Name, Address, Router, Network,
                   service, r, rets, logs, exitCode>>
    /\ UNCHANGED cmdVars

\* s.start(): logs and invokes s.router.Start()
start ==
    /\ pc = "start"
    /\ logs' = Append(logs, Info(<<"starting micro server">>))
    /\ calls' = Append(calls, Call("Router.Start", s.router.id))
    /\ pc' = "starting"
    /\ UNCHANGED <<ctx, ctxInt, plugins, idx, Name, Address, Router, Network,
                   service, r, s, rets, exitCode>>
    /\ UNCHANGED cmdVars

\* mutant of startReturn: a start error is logged but run() carries on
startReturn_NoExit(err) ==
    /\ pc = "starting"
    /\ rets' = Append(rets, Ret("Router.Start", err))
    /\ IF err # Nil
       THEN /\ logs' = Append(logs, Error(Sprintf("failed to start: ", err)))
            /\ exitCode' = exitCode
            /\ pc' = "run"
       ELSE /\ logs' = Append(logs, Info(<<"successfully started">>))
            /\ exitCode' = exitCode
            /\ pc' = "run"
    /\ UNCHANGED <<ctx, ctxInt, plugins, idx, Name, Address, Router, Network,
                   service, r, s, calls>>
    /\ UNCHANGED cmdVars

\* Router.Start returns err; start() returns it unchanged; run() exits on error
startReturn(err) ==
    /\ pc = "starting"
    /\ rets' = Append(rets, Ret("Router.Start", err))
    /\ IF err # Nil
       THEN /\ logs' = Append(logs, Error(Sprintf("failed to start: ", err)))
            /\ exitCode' = 1
            /\ pc' = "exited"
       ELSE /\ logs' = Append(logs, Info(<<"successfully started">>))
            /\ exitCode' = exitCode
            /\ pc' = "run"
    /\ UNCHANGED <<ctx, ctxInt, plugins, idx, Name, Address, Router, Network,
                   service, r, s, calls>>
    /\ UNCHANGED cmdVars

\* service.Run() is entered and blocks
serviceRun ==
    /\ pc = "run"
    /\ calls' = Append(calls, Call("Service.Run", service.name))
    /\ pc' = "running"
    /\ UNCHANGED <<ctx, ctxInt, plugins, idx, Name, Address, Router, Network,
                   service, r, s, rets, logs, exitCode>>
    /\ UNCHANGED cmdVars

\* mutant of serviceRunReturn: a clean return leaves run() without stopping
serviceRunReturn_SkipStop(err) ==
    /\ pc = "running"
    /\ rets' = Append(rets, Ret("Service.Run", err))
    /\ IF err # Nil
       THEN /\ logs' = Append(logs, Error(Sprintf("failed with error ", err)))
            /\ exitCode' = 1
            /\ pc' = "exited"
       ELSE /\ logs' = Append(logs, Info(<<"successfully stopped">>))
            /\ exitCode' = exitCode
            /\ pc' = "returned"
    /\ UNCHANGED <<ctx, ctxInt, plugins, idx, Name, Address, Router, Network,
                   service, r, s, calls>>
    /\ UNCHANGED cmdVars

\* mutant of serviceRunReturn: the router is stopped before bailing on error
serviceRunReturn_StopFirst(err) ==
    /\ pc = "running"
    /\ rets' = Append(rets, Ret("Service.Run", err))
    /\ IF err # Nil
       THEN /\ logs' = Append(logs, Error(Sprintf("failed with error ", err)))
            /\ exitCode' = exitCode
            /\ pc' = "stop"
       ELSE /\ logs' = logs
            /\ exitCode' = exitCode
            /\ pc' = "stop"
    /\ UNCHANGED <<ctx, ctxInt, plugins, idx, Name, Address, Router, Network,
                   service, r, s, calls>>
    /\ UNCHANGED cmdVars

\* service.Run() returns err; run() exits on error without stopping the router
serviceRunReturn(err) ==
    /\ pc = "running"
    /\ rets' = Append(rets, Ret("Service.Run", err))
    /\ IF err # Nil
       THEN /\ logs' = Append(logs, Error(Sprintf("failed with error ", err)))
            /\ exitCode' = 1
            /\ pc' = "exited"
       ELSE /\ logs' = logs
            /\ exitCode' = exitCode
            /\ pc' = "stop"
    /\ UNCHANGED <<ctx, ctxInt, plugins, idx, Name, Address, Router, Network,
                   service, r, s, calls>>
    /\ UNCHANGED cmdVars

\* mutant of stop: the router is stopped while the run loop still blocks
stop_WhileRunning ==
    /\ pc \in {"stop", "running"}
    /\ logs' = Append(logs, Info(<<"stopping server">>))
    /\ calls' = Append(calls, Call("Router.Stop", s.router.id))
    /\ pc' = "stopping"
    /\ UNCHANGED <<ctx, ctxInt, plugins, idx, Name, Address, Router, Network,
                   service, r, s, rets, exitCode>>
    /\ UNCHANGED cmdVars

\* s.stop(): logs and invokes s.router.Stop()
stop ==
    /\ pc = "stop"
    /\ logs' = Append(logs, Info(<<"stopping server">>))
    /\ calls' = Append(calls, Call("Router.Stop", s.router.id))
    /\ pc' = "stopping"
    /\ UNCHANGED <<ctx, ctxInt, plugins, idx, Name, Address, Router, Network,
                   service, r, s, rets, exitCode>>
    /\ UNCHANGED cmdVars

\* mutant of stopReturn: stop() returns the router's error unwrapped
stopReturn_NoWrap(err) ==
    /\ pc = "stopping"
    /\ rets' = Append(rets, Ret("Router.Stop", err))
    /\ IF err # Nil
       THEN /\ logs' = Append(logs, Error(Sprintf("failed to stop: ", err)))
            /\ exitCode' = 1
            /\ pc' = "exited"
       ELSE /\ logs' = Append(logs, Info(<<"successfully stopped">>))
            /\ exitCode' = exitCode
            /\ pc' = "returned"
    /\ UNCHANGED <<ctx, ctxInt, plugins, idx, Name, Address, Router, Network,
                   service, r, s, calls>>
    /\ UNCHANGED cmdVars

\* mutant of stopReturn: a stop failure exits with a status of its own
stopReturn_ExitTwo(err) ==
    /\ pc = "stopping"
    /\ rets' = Append(rets, Ret("Router.Stop", err))
    /\ IF err # Nil
       THEN /\ logs' = Append(logs, Error(Sprintf("failed to stop: ",
                                   Errorf("failed to stop router: ", err))))
            /\ exitCode' = 2
            /\ pc' = "exited"
       ELSE /\ logs' = Append(logs, Info(<<"successfully stopped">>))
            /\ exitCode' = exitCode
            /\ pc' = "returned"
    /\ UNCHANGED <<ctx, ctxInt, plugins, idx, Name, Address, Router, Network,
                   service, r, s, calls>>
    /\ UNCHANGED cmdVars

\* mutant of stopReturn: a failed stop is attempted again
stopReturn_Retry(err) ==
    /\ pc = "stopping"
    /\ rets' = Append(rets, Ret("Router.Stop", err))
    /\ IF err # Nil
       THEN /\ logs' = Append(logs, Error(Sprintf("failed to stop: ",
                                   Errorf("failed to stop router: ", err))))
            /\ exitCode' = exitCode
            /\ pc' = "stop"
       ELSE /\ logs' = Append(logs, Info(<<"successfully stopped">>))
            /\ exitCode' = exitCode
            /\ pc' = "returned"
    /\ UNCHANGED <<ctx, ctxInt, plugins, idx, Name, Address, Router, Network,
                   service, r, s, calls>>
    /\ UNCHANGED cmdVars

\* Router.Stop returns err; stop() wraps it; run() exits on error, else returns
stopReturn(err) ==
    /\ pc = "stopping"
    /\ rets' = Append(rets, Ret("Router.Stop", err))
    /\ IF err # Nil
       THEN /\ logs' = Append(logs, Error(Sprintf("failed to stop: ",
                                   Errorf("failed to stop router: ", err))))
            /\ exitCode' = 1
            /\ pc' = "exited"
       ELSE /\ logs' = Append(logs, Info(<<"successfully stopped">>))
            /\ exitCode' = exitCode
            /\ pc' = "returned"
    /\ UNCHANGED <<ctx, ctxInt, plugins, idx, Name, Address, Router, Network,
                   service, r, s, calls>>
    /\ UNCHANGED cmdVars

Next ==
    \/ InitPlugin
    \/ PluginsDone
    \/ ResolveName
    \/ ResolveAddress
    \/ ResolveRouter
    \/ ResolveNetwork
    \/ NewService
    \/ NewRouter
    \/ newServer
    \/ start
    \/ \E err \in RouterErrs \cup {Nil} : startReturn(err)
    \/ serviceRun
    \/ \E err \in ServiceErrs \cup {Nil} : serviceRunReturn(err)
    \/ stop
    \/ \E err \in RouterErrs \cup {Nil} : stopReturn(err)

Spec == Init /\ [][Next]_vars

\* the control thread keeps running and every call it makes returns
FairSpec == Spec /\ WF_vars(Next)

\* ------------------------------------------------------------ Commands()
\* Commands() is entered: nothing is assembled yet, run() has not started
InitCommands ==
    /\ pc = "commands"
    /\ plugins \in {reg \in Registries : \A k \in 1..Len(reg) : reg[k] = k}
    /\ pflags \in [PluginIds -> FlagContribs]
    /\ pcmds \in [PluginIds -> CmdContribs]
    /\ \A p \in PluginIds :
          (\A k \in 1..Len(plugins) : plugins[k] # p) =>
              pflags[p] = <<>> /\ pcmds[p] = <<>>
    /\ command = None
    /\ cidx = 1
    /\ ctx = [key \in Keys |-> ""]
    /\ ctxInt = [key \in IntKeys |-> 0]
    /\ idx = 1
    /\ Name = DefaultName
    /\ Address = DefaultAddress
    /\ Router = DefaultRouter
    /\ Network = DefaultNetwork
    /\ service = None
    /\ r = None
    /\ s = None
    /\ calls = <<>>
    /\ rets = <<>>
    /\ logs = <<>>
    /\ exitCode = 0

\* command := &cli.Command{...} with the three base flags
CommandsNew ==
    /\ pc = "commands"
    /\ command' = BaseCommand
    /\ cidx' = 1
    /\ pc' = "commands_loop"
    /\ UNCHANGED <<plugins, pflags, pcmds>>
    /\ UNCHANGED runVars

\* mutant of CommandsPlugin: a flag whose name is already declared is dropped
CommandsPlugin_Dedup ==
    /\ pc = "commands_loop"
    /\ cidx <= Len(plugins)
    /\ LET cmds == pcmds[plugins[cidx]]
           flags == pflags[plugins[cidx]]
           Declared(f) == \E k \in 1..Len(command.flags) : command.flags[k].name = f.name
           Fresh(f) == ~Declared(f)
       IN  command' = [command EXCEPT
                         !.subcommands = IF Len(cmds) > 0 THEN @ \o cmds ELSE @,
                         !.flags = IF Len(flags) > 0 THEN @ \o SelectSeq(flags, Fresh) ELSE @]
    /\ cidx' = cidx + 1
    /\ UNCHANGED <<pc, plugins, pflags, pcmds>>
    /\ UNCHANGED runVars

\* one iteration of the range loop: append p.Commands(), then p.Flags()
CommandsPlugin ==
    /\ pc = "commands_loop"
    /\ cidx <= Len(plugins)
    /\ LET cmds == pcmds[plugins[cidx]]
           flags == pflags[plugins[cidx]]
       IN  command' = [command EXCEPT
                         !.subcommands = IF Len(cmds) > 0 THEN @ \o cmds ELSE @,
                         !.flags = IF Len(flags) > 0 THEN @ \o flags ELSE @]
    /\ cidx' = cidx + 1
    /\ UNCHANGED <<pc, plugins, pflags, pcmds>>
    /\ UNCHANGED runVars

\* the loop is exhausted: return []*cli.Command{command}
CommandsReturn ==
    /\ pc = "commands_loop"
    /\ cidx > Len(plugins)
    /\ pc' = "commands_done"
    /\ UNCHANGED <<plugins, command, cidx, pflags, pcmds>>
    /\ UNCHANGED runVars

NextCommands ==
    \/ CommandsNew
    \/ CommandsPlugin
    \/ CommandsReturn

SpecCommands == InitCommands /\ [][NextCommands]_vars

TypeOK ==
    /\ pc \in {"plugins", "resolve_name", "resolve_address", "resolve_router",
               "resolve_network", "new_service", "new_router", "new_server",
               "start", "starting", "run", "running", "stop", "stopping",
               "returned", "exited",
               "commands", "commands_loop", "commands_done"}
    /\ exitCode \in {0, 1}
    /\ idx \in 1..(Len(plugins) + 1)

\* ------------------------------------------------------ derived notions
Invoked(op) == \E k \in 1..Len(calls) : calls[k].op = op
Count(op) == Cardinality({k \in 1..Len(calls) : calls[k].op = op})
ReturnedOk(op) == \E k \in 1..Len(rets) : rets[k].op = op /\ rets[k].err = Nil
ReturnedErr(op) == \E k \in 1..Len(rets) : rets[k].op = op /\ rets[k].err # Nil
Returned(op) == ReturnedOk(op) \/ ReturnedErr(op)
Terminated == pc \in {"returned", "exited"}
\* resolution has run to its end
Resolved == pc \notin {"plugins", "resolve_name", "resolve_address",
                       "resolve_router", "resolve_network"}
Constructed == service # None \/ r # None \/ s # None
\* the lifecycle state of section 4.4 the control thread is in
Lifecycle ==
    CASE pc = "starting" -> "Starting"
      [] pc \in {"run", "running"} -> "Running"
      [] pc \in {"stop", "stopping"} -> "Stopping"
      [] pc = "returned" -> "Stopped"
      [] pc = "exited" -> "Failed"
      [] OTHER -> "Idle"
\* the router was started and no stop was ever requested of it
RouterLeftStarted == ReturnedOk("Router.Start") /\ ~Invoked("Router.Stop")
LastLog == logs[Len(logs)]
\* the value a setting takes when its own lookup overrides the default
Override(key, default) == IF ctx[key] # "" THEN ctx[key] ELSE default
IsInitCall(c) == c.op = "Plugin.Init"
\* the plugins whose Init was called, in call order
InitLedger ==
    LET inits == SelectSeq(calls, IsInitCall)
    IN  [k \in 1..Len(inits) |-> inits[k].arg]

\* C1: once Router.Start has returned an error, Router.Stop and Service.Run
\* are never invoked, Running is not reached, and the process has exited
\* with status 1.
C1_StartFailureIsFatal ==
    ReturnedErr("Router.Start") =>
        /\ ~Invoked("Router.Stop")
        /\ ~Invoked("Service.Run")
        /\ Lifecycle = "Failed"
        /\ exitCode = 1
        /\ ~ReturnedOk("Router.Start")

C1_Witness == ReturnedErr("Router.Start") /\ pc = "exited"

\* C2: once the run loop has returned nil, Router.Stop is invoked at most
\* once, exactly once by the time run() ends, and run() returns normally
\* (logging "successfully stopped") only if that stop returned nil.
C2_StopOnceAfterCleanRun ==
    ReturnedOk("Service.Run") =>
        /\ Count("Router.Stop") <= 1
        /\ Terminated => Count("Router.Stop") = 1
        /\ pc = "returned" =>
              /\ ReturnedOk("Router.Stop")
              /\ exitCode = 0
              /\ LastLog = Info(<<"successfully stopped">>)
        /\ ReturnedErr("Router.Stop") => pc = "exited" /\ exitCode = 1

C2_Witness == ReturnedOk("Service.Run") /\ pc = "returned" /\ Count("Router.Stop") = 1

\* C3: whenever the run loop has returned (nil or error) and the process has
\* terminated, Router.Stop was attempted.
C3_StopAlwaysAttempted ==
    (Returned("Service.Run") /\ Terminated) => Invoked("Router.Stop")

\* C4: once the run loop has returned an error the process has exited with
\* status 1 straight from Running: the error is the last thing logged,
\* Router.Stop was not invoked and the router is left started.
C4_RunFailureSkipsStop ==
    \A k \in 1..Len(rets) :
        (rets[k].op = "Service.Run" /\ rets[k].err # Nil) =>
            /\ Lifecycle = "Failed"
            /\ exitCode = 1
            /\ ~Invoked("Router.Stop")
            /\ RouterLeftStarted
            /\ LastLog = Error(Sprintf("failed with error ", rets[k].err))

C4_Witness == ReturnedErr("Service.Run") /\ pc = "exited" /\ RouterLeftStarted

\* C5: in Stopping the call made is Router.Stop; when it returns an error
\* the process is Failed with status 1 and the error reported is the
\* router's error wrapped as "failed to stop router"; Stopped is reached
\* only if Router.Stop returned nil.
C5_StopFailureWrapped ==
    /\ pc = "stopping" => calls[Len(calls)].op = "Router.Stop"
    /\ \A k \in 1..Len(rets) :
          (rets[k].op = "Router.Stop" /\ rets[k].err # Nil) =>
              /\ Lifecycle = "Failed"
              /\ exitCode = 1
              /\ LastLog = Error(Sprintf("failed to stop: ",
                               Errorf("failed to stop router: ", rets[k].err)))
    /\ Lifecycle = "Stopped" => ReturnedOk("Router.Stop") /\ ~ReturnedErr("Router.Stop")

C5_Witness == ReturnedErr("Router.Stop") /\ pc = "exited"

\* C6: after resolution each of the four settings equals the value of its
\* own lookup (server_name, address, router_address, network_address) when
\* that value is non-empty, and its default otherwise.
C6_OwnLookupOverrides ==
    Resolved =>
        /\ Name = Override("server_name", DefaultName)
        /\ Address = Override("address", DefaultAddress)
        /\ Router = Override("router_address", DefaultRouter)
        /\ Network = Override("network_address", DefaultNetwork)

C8_NeverEmpty ==
    Resolved =>
        /\ ((\A key \in Keys : ctx[key] = "") /\ plugins = <<>>) =>
              /\ Name = "go.micro.server"
              /\ Address = ":8087"
              /\ Router = ":9093"
              /\ Network = "local"
        /\ Name # "" /\ Address # "" /\ Router # "" /\ Network # ""

\* C9: with a non-empty address override and no override of the name, the
\* router address or the network id, the resolved address is the override
\* and the three other settings keep their defaults.
C9_AddressOnly ==
    (/\ Resolved
     /\ ctx["address"] # ""
     /\ ctx["server_name"] = ""
     /\ ctx["router_address"] = ""
     /\ ctx["network_address"] = "") =>
        /\ Address = ctx["address"]
        /\ Name = DefaultName
        /\ Router = DefaultRouter
        /\ Network = DefaultNetwork

C9_Witness ==
    /\ Resolved
    /\ ctx["address"] = "127.0.0.1:9000"
    /\ ctx["server_name"] = ""
    /\ ctx["router_address"] = ""
    /\ ctx["network_address"] = ""
    /\ Address = "127.0.0.1:9000"

\* C10: the plugins whose Init was called are always a prefix of the
\* registry (one call each, in registration order), no other call precedes
\* an Init call, and once the loop is left or anything is constructed the
\* ledger is the whole registry: N calls for N plugins.
C10_PluginInitOrder ==
    /\ Len(InitLedger) <= Len(plugins)
    /\ \A k \in 1..Len(InitLedger) : InitLedger[k] = plugins[k]
    /\ \A j, k \in 1..Len(calls) :
          (j < k /\ calls[k].op = "Plugin.Init") => calls[j].op = "Plugin.Init"
    /\ (pc # "plugins" \/ Constructed) => InitLedger = plugins

C10_Witness == Len(plugins) >= 2 /\ s # None /\ Len(InitLedger) = Len(plugins)

\* --------------------------------------------------------------- phases
ResolvePcs == {"resolve_name", "resolve_address", "resolve_router", "resolve_network"}
BuildPcs == {"new_service", "new_router", "new_server"}
\* nothing has been written to the four settings yet
SettingsUntouched ==
    /\ Name = DefaultName
    /\ Address = DefaultAddress
    /\ Router = DefaultRouter
    /\ Network = DefaultNetwork

\* C11 (as stated): configuration resolution is complete before the first
\* plugin Init hook is invoked, and no Init hook runs once construction has
\* begun.
C11_ResolveBeforeInit ==
    /\ Invoked("Plugin.Init") => Resolved
    /\ Constructed => pc # "plugins"

\* C11 (amended): the phases run in the order init plugins -> resolve
\* configuration -> build components -> run lifecycle: while the Init loop
\* runs no setting has been written and nothing is built; while resolution
\* runs every Init hook has been called and nothing is built; components are
\* built only after resolution; the lifecycle starts only after all three
\* components exist; and every Init call precedes every other call.
C11_InitBeforeResolve ==
    /\ pc = "plugins" => SettingsUntouched /\ ~Constructed
    /\ pc \in ResolvePcs =>
          /\ InitLedger = plugins
          /\ Len(calls) = Len(plugins)
          /\ ~Constructed
    /\ Constructed => Resolved /\ InitLedger = plugins
    /\ Invoked("Router.Start") => service # None /\ r # None /\ s # None
    /\ \A j, k \in 1..Len(calls) :
          (j < k /\ calls[k].op = "Plugin.Init") => calls[j].op = "Plugin.Init"

C11_Witness ==
    /\ pc = "new_service"
    /\ Len(plugins) >= 1
    /\ InitLedger = plugins
    /\ Name # DefaultName

RECURSIVE FlagsOf(_)
\* the flags of the first n registered plugins, concatenated in order
FlagsOf(n) == IF n = 0 THEN <<>> ELSE FlagsOf(n - 1) \o pflags[plugins[n]]
RECURSIVE CmdsOf(_)
\* the sub-commands of the first n registered plugins, concatenated in order
CmdsOf(n) == IF n = 0 THEN <<>> ELSE CmdsOf(n - 1) \o pcmds[plugins[n]]

\* C12: once Commands() has assembled the command, its flag list is the
\* three base flags followed by every plugin's flags and its sub-command list
\* is every plugin's sub-commands, each in registration order with the
\* plugin's own order kept, nothing dropped and nothing deduplicated; during
\* the loop the lists hold the contributions of the plugins visited so far.
C12_CommandSurface ==
    /\ pc = "commands_loop" =>
          /\ command.flags = BaseCommand.flags \o FlagsOf(cidx - 1)
          /\ command.subcommands = CmdsOf(cidx - 1)
    /\ pc = "commands_done" =>
          /\ command.flags = BaseCommand.flags \o FlagsOf(Len(plugins))
          /\ command.subcommands = CmdsOf(Len(plugins))
          /\ Len(command.flags) = 3 + Len(FlagsOf(Len(plugins)))
          /\ command.flags[1].name = "address"
          /\ command.flags[2].name = "router_address"
          /\ command.flags[3].name = "network_address"

\* two plugins contribute the same flag and the same sub-command; both appear
C12_Witness ==
    /\ pc = "commands_done"
    /\ Len(plugins) >= 2
    /\ Len(pflags[plugins[1]]) >= 1
    /\ pflags[plugins[1]] = pflags[plugins[2]]
    /\ Len(pcmds[plugins[1]]) >= 2
    /\ pcmds[plugins[1]][1] # pcmds[plugins[1]][2]
    /\ pcmds[plugins[2]] = pcmds[plugins[1]]
    /\ Len(command.flags) >= 5
    /\ Len(command.subcommands) >= 4

\* C13: the four settings change only in steps of the resolution phase;
\* nothing is constructed before resolution has finished; and once
\* Router.Start has been invoked the settings still equal the values the
\* components captured when they were built right after resolution.
C13_ConfigFrozen ==
    /\ [][pc \notin ResolvePcs => UNCHANGED <<Name, Address, Router, Network>>]_vars
    /\ [](Constructed => Resolved)
    /\ [](Invoked("Router.Start") =>
            /\ service.name = Name
            /\ service.address = Address
            /\ r.address = Router
            /\ r.network = Network
            /\ s.router = r
            /\ s.network.transport.addrs = Network)

C13_Witness ==
    /\ Invoked("Router.Start")
    /\ Name # DefaultName
    /\ Address # DefaultAddress
    /\ Router # DefaultRouter
    /\ Network # DefaultNetwork

\* C14: whichever of Router.Start, Service.Run or Router.Stop returns an
\* error, the process is Failed with exit status 1, the error is the last
\* thing logged, the failed operation was invoked once (no retry) and is the
\* last operation invoked and the last to return; Failed arises in no other
\* way, and nothing happens after it.
C14_FailureIsFatal ==
    /\ [](\A k \in 1..Len(rets) :
            rets[k].err # Nil =>
                /\ Lifecycle = "Failed"
                /\ exitCode = 1
                /\ LastLog.level = "error"
                /\ k = Len(rets)
                /\ calls[Len(calls)].op = rets[k].op
                /\ Count(rets[k].op) = 1)
    /\ [](Lifecycle = "Failed" =>
            ReturnedErr("Router.Start") \/ ReturnedErr("Service.Run") \/ ReturnedErr("Router.Stop"))
    /\ [][Lifecycle = "Failed" => UNCHANGED vars]_vars

C14_Witness ==
    /\ Lifecycle = "Failed"
    /\ ReturnedErr("Router.Stop")
    /\ exitCode = 1

\* C15: the registration TTL and interval handed to the Service are the
\* register_ttl / register_interval lookups times one second (a count of
\* nanoseconds), whatever the string lookups and the resolved settings are:
\* an unset lookup (0) gives a zero duration and no default replaces it.
C15_RegisterDurations ==
    service # None =>
        /\ service.registerTTL = ctxInt["register_ttl"] * 1000000000
        /\ service.registerInterval = ctxInt["register_interval"] * 1000000000
        /\ ctxInt["register_ttl"] = 0 => service.registerTTL = 0
        /\ ctxInt["register_interval"] = 0 => service.registerInterval = 0

C15_Witness ==
    /\ service # None
    /\ ctxInt["register_ttl"] = 2
    /\ ctxInt["register_interval"] = 0
    /\ service.registerTTL = 2000000000
    /\ service.registerInterval = 0
    /\ Name # DefaultName

\* C16: from the moment Router.Start has returned nil until the run loop
\* returns, the lifecycle is Running and Router.Stop has not been invoked;
\* the only step that leaves Running is the return of Service.Run.
C16_RunningUntilRunReturns ==
    /\ []((ReturnedOk("Router.Start") /\ ~Returned("Service.Run")) =>
            /\ Lifecycle = "Running"
            /\ ~Invoked("Router.Stop"))
    /\ [][(Lifecycle = "Running" /\ Lifecycle' # "Running") =>
            /\ Len(rets') = Len(rets) + 1
            /\ rets'[Len(rets')].op = "Service.Run"]_vars

C16_Witness == pc = "running" /\ Invoked("Service.Run") /\ ~Returned("Service.Run")

\* C17: Router.Start and Router.Stop are each invoked at most once;
\* Router.Stop is invoked only after Router.Start returned nil and after
\* Service.Run returned; in the ledger of calls Start comes before Run and
\* Run before Stop, so Stop never precedes Start and no Start follows Stop.
C17_StartStopOrder ==
    /\ Count("Router.Start") <= 1
    /\ Count("Router.Stop") <= 1
    /\ Count("Service.Run") <= 1
    /\ Invoked("Router.Stop") => ReturnedOk("Router.Start") /\ Returned("Service.Run")
    /\ Invoked("Service.Run") => ReturnedOk("Router.Start")
    /\ \A j, k \in 1..Len(calls) :
          /\ (calls[j].op = "Router.Start" /\ calls[k].op = "Router.Stop") => j < k
          /\ (calls[j].op = "Router.Start" /\ calls[k].op = "Service.Run") => j < k
          /\ (calls[j].op = "Service.Run" /\ calls[k].op = "Router.Stop") => j < k

C17_Witness ==
    /\ Invoked("Router.Stop")
    /\ Count("Router.Start") = 1
    /\ Count("Router.Stop") = 1
    /\ Terminated

\* the two terminal outcomes as the process signals them
SuccessSignalled == pc = "returned" /\ Info(<<"successfully stopped">>) \in {logs[k] : k \in 1..Len(logs)}
FailureSignalled == pc = "exited" /\ exitCode # 0

\* C18: when the control thread keeps running and every call returns, run()
\* eventually signals success (Stopped) or failure (Failed, exit status 1),
\* never both; a terminal state signals one of them and is never left.
C18_OneTerminalOutcome ==
    /\ <>(SuccessSignalled \/ FailureSignalled)
    /\ [](~(SuccessSignalled /\ FailureSignalled))
    /\ [](Terminated => (SuccessSignalled \/ FailureSignalled))
    /\ [](SuccessSignalled => exitCode = 0 /\ ~ReturnedErr("Router.Start")
                              /\ ~ReturnedErr("Service.Run") /\ ~ReturnedErr("Router.Stop"))
    /\ [][Terminated => UNCHANGED vars]_vars

C18_Witness == SuccessSignalled /\ ReturnedOk("Router.Stop") /\ Len(plugins) >= 1
====
